---------------------------- MODULE Spec2Model ----------------------------
(***************************************************************************)
(* A model of the virtual-memory manager simulator of src/mmu.cpp: the     *)
(* frame table and its free list, the per-process page tables, the six     *)
(* pagers, the page-fault handler, context switch and process exit, and    *)
(* the event driver with its counters and cost.                            *)
(***************************************************************************)
EXTENDS Integers, Sequences, FiniteSets

\* ---------------------------------------------------------------- constants

MAX_VPAGES == 64
NRU_RESET_COUNT == 48
WORKING_SET_TAU == 49

CTX_SWITCH_TIME == 130
LD_ST_TIME == 1
PROC_EXIT_TIME == 1230
MAPS_TIME == 350
UNMAPS_TIME == 410
INS_TIME == 3200
OUTS_TIME == 2750
FINS_TIME == 2350
FOUTS_TIME == 2800
ZEROS_TIME == 150
SEGV_TIME == 440
SEGPROT_TIME == 410

\* ------------------------------------------------------------------- bounds

\* The number of frames (-f) of the general runs: the frame table is small so
\* that victim selection happens within a short trace.
SmallFrames == 2

\* The number of instructions of the trace that are executed.
MaxIns == 5

\* ------------------------------------------------------------------- inputs

\* The input file of the general runs: one VMA list per process
\* (pid = index - 1). Process 0 has an anonymous page, a file-mapped page and a write-protected
\* anonymous page; process 1 has a two-page write-protected file mapping and
\* a hole above it.
InputVMAS ==
    << << [start_page |-> 0, end_page |-> 0, is_write_protected |-> 0, is_file_mapped |-> 0],
          [start_page |-> 1, end_page |-> 1, is_write_protected |-> 0, is_file_mapped |-> 1],
          [start_page |-> 2, end_page |-> 2, is_write_protected |-> 1, is_file_mapped |-> 0] >>,
       << [start_page |-> 0, end_page |-> 1, is_write_protected |-> 1, is_file_mapped |-> 1] >> >>

\* -------------------------------------------------------------------- state

VARIABLES
    NUM_FRAMES,     \* the number of frames: set from -f, then never written
    VMAS,           \* the VMA lists read from the input file, one per process
    FRAME_TABLE,    \* frame index -> frame_t (frame_id is the index)
    FREE_FRAMES,    \* the free list: a sequence of frame indices
    PROCS,          \* pid -> the process's page table and counters
    PAGER,          \* the pager: its algorithm, hand and last reset
    OFS,            \* the random file's cursor
    CURR_PROC,      \* the running process's pid, -1 before the first switch
    INS_COUNTER,
    CTX_SWITCHES,
    PROC_EXITS,
    COST,
    ins,            \* the instruction last fetched: run_simulation's op and target
    out,            \* the event lines of the last instruction (option O)
    victim          \* the frame select_victim_frame returned during the last
                    \* instruction, -1 when it was not called

vars == <<NUM_FRAMES, VMAS, FRAME_TABLE, FREE_FRAMES, PROCS, PAGER, OFS, CURR_PROC,
          INS_COUNTER, CTX_SWITCHES, PROC_EXITS, COST, ins, out, victim>>

NUM_PROCS == Len(VMAS)

Pids == 0 .. (NUM_PROCS - 1)

vma_list(pid) == VMAS[pid + 1]

num_vmas(pid) == Len(vma_list(pid))

\* The random file's values.
RANDVALS == <<3, 1, 2, 0>>

RAND_COUNT == Len(RANDVALS)

\* The virtual pages the trace's r and w instructions address: every page of
\* a VMA and the first page above them all.
MaxOf(S) == CHOOSE x \in S : \A y \in S : y <= x

Addrs == 0 .. MaxOf(UNION {{VMAS[p][i].end_page : i \in 1 .. Len(VMAS[p])} : p \in 1 .. NUM_PROCS})

Frames == 0 .. (NUM_FRAMES - 1)

VPages == 0 .. (MAX_VPAGES - 1)

\* The -a letters: FIFO, Random, Clock, NRU, Aging, Working-Set.
Algos == {"f", "r", "c", "e", "a", "w"}

\* ------------------------------------------------------------ initial state

\* frame_t(): a frame's age is kept as the set of the bit positions that are
\* set in the unsigned long (bit 31 is 0x80000000).
frame_t ==
    [is_assigned |-> FALSE, pid |-> -1, vpage |-> -1, is_victim |-> FALSE, age |-> {}]

\* pte_t, zero-initialised.
pte_t ==
    [is_present |-> 0, is_referenced |-> 0, is_modified |-> 0, is_write_protected |-> 0,
     is_paged_out |-> 0, is_assigned_to_vma |-> 0, is_file_mapped |-> 0, frame_num |-> 0]

\* Process(): an empty page table and zeroed counters.
Process ==
    [page_table |-> [v \in VPages |-> pte_t],
     unmaps |-> 0, maps |-> 0, ins |-> 0, outs |-> 0, fins |-> 0, fouts |-> 0,
     zeros |-> 0, segv |-> 0, segprot |-> 0]

\* getPager: every pager starts with its hand at 0; NRU's last_reset is 0.
getPager(a) == [algo |-> a, hand |-> 0, last_reset |-> 0]

\* The free list filled from the highest frame down.
initialize_frames_descending == [i \in 1 .. NUM_FRAMES |-> NUM_FRAMES - i]

\* initialize_frames: every frame is pushed on the free list in index order.
initialize_frames == [i \in 1 .. NUM_FRAMES |-> i - 1]

\* The state after main's set-up: -f num_frames, the input file's processes
\* and one of the pagers algos.
Load(num_frames, processes, algos) ==
    /\ NUM_FRAMES = num_frames
    /\ VMAS = processes
    /\ FRAME_TABLE = [f \in Frames |-> frame_t]
    /\ FREE_FRAMES = initialize_frames
    /\ PROCS = [p \in Pids |-> Process]
    /\ \E a \in algos : PAGER = getPager(a)
    /\ OFS = 0
    /\ CURR_PROC = -1
    /\ INS_COUNTER = 0
    /\ CTX_SWITCHES = 0
    /\ PROC_EXITS = 0
    /\ COST = 0
    /\ ins = [op |-> "", addr |-> 0]
    /\ out = <<>>
    /\ victim = -1

Init == Load(SmallFrames, InputVMAS, Algos)

\* ---------------------------------------------------------------- machine

\* The mutable globals as one record, threaded through the handlers.
Machine ==
    [FRAME_TABLE |-> FRAME_TABLE, FREE_FRAMES |-> FREE_FRAMES, PROCS |-> PROCS,
     PAGER |-> PAGER, OFS |-> OFS, CURR_PROC |-> CURR_PROC, INS_COUNTER |-> INS_COUNTER,
     CTX_SWITCHES |-> CTX_SWITCHES, PROC_EXITS |-> PROC_EXITS, COST |-> COST,
     ins |-> ins, out |-> <<>>, victim |-> -1]

Commit(m) ==
    /\ UNCHANGED <<NUM_FRAMES, VMAS>>
    /\ FRAME_TABLE' = m.FRAME_TABLE
    /\ FREE_FRAMES' = m.FREE_FRAMES
    /\ PROCS' = m.PROCS
    /\ PAGER' = m.PAGER
    /\ OFS' = m.OFS
    /\ CURR_PROC' = m.CURR_PROC
    /\ INS_COUNTER' = m.INS_COUNTER
    /\ CTX_SWITCHES' = m.CTX_SWITCHES
    /\ PROC_EXITS' = m.PROC_EXITS
    /\ COST' = m.COST
    /\ ins' = m.ins
    /\ out' = m.out
    /\ victim' = m.victim

\* A printed event line: its word and its (up to two) numbers.
Ev(e, x, y) == [e |-> e, x |-> x, y |-> y]

printf(m, e, x, y) == [m EXCEPT !.out = Append(@, Ev(e, x, y))]

\* reverse_map: the (pid, vpage) of the page table entry that owns frame id.
reverse_map(m, id) == <<m.FRAME_TABLE[id].pid, m.FRAME_TABLE[id].vpage>>

\* The entry a pte_t pointer points at.
Deref(m, ptr) == m.PROCS[ptr[1]].page_table[ptr[2]]

\* ------------------------------------------------------------------ pagers

\* get_random reading the value after the cursor's: the cursor advances
\* before the table is read.
get_random_advances_first(m) ==
    [random |-> RANDVALS[((m.OFS + 1) % RAND_COUNT) + 1] % NUM_FRAMES,
     m |-> [m EXCEPT !.OFS = @ + 1]]

\* get_random: RANDVALS[OFS % RAND_COUNT] % NUM_FRAMES, and OFS advances.
get_random(m) ==
    [random |-> RANDVALS[(m.OFS % RAND_COUNT) + 1] % NUM_FRAMES,
     m |-> [m EXCEPT !.OFS = @ + 1]]

\* FIFO with the advance of the hand forgotten.
FCFS_select_no_advance(m) == [victim |-> m.PAGER.hand, m |-> m]

\* FCFSPager::select_victim_frame
FCFS_select_victim_frame(m) ==
    [victim |-> m.PAGER.hand,
     m |-> [m EXCEPT !.PAGER.hand = (@ + 1) % NUM_FRAMES]]

\* RandomPager::select_victim_frame
Random_select_victim_frame(m) ==
    LET r == get_random(m)
    IN  [victim |-> r.random, m |-> r.m]

\* The while loop advancing the hand without clearing the R bits it passes:
\* the hand stops at the first entry with R clear, or where it started.
RECURSIVE ClockLoop_keeps_R(_)
ClockLoop_keeps_R(m) ==
    LET zero == {i \in 0 .. (NUM_FRAMES - 1) :
                    Deref(m, reverse_map(m, (m.PAGER.hand + i) % NUM_FRAMES)).is_referenced = 0}
    IN  IF zero = {} THEN m
        ELSE [m EXCEPT !.PAGER.hand =
                 (@ + CHOOSE i \in zero : \A j \in zero : i <= j) % NUM_FRAMES]

\* ClockPager::select_victim_frame, its while loop: clear the R bit of the
\* entry under the hand and advance, until an entry with R clear is under it.
RECURSIVE ClockLoop(_)
ClockLoop(m) ==
    LET clock_pte == reverse_map(m, m.PAGER.hand)
    IN  IF Deref(m, clock_pte).is_referenced = 1
        THEN ClockLoop([m EXCEPT
                 !.PROCS[clock_pte[1]].page_table[clock_pte[2]].is_referenced = 0,
                 !.PAGER.hand = (@ + 1) % NUM_FRAMES])
        ELSE m

\* Clock that takes the frame under the hand whatever its R bit is.
Clock_select_ignores_R(m) ==
    [victim |-> m.PAGER.hand,
     m |-> [m EXCEPT !.PAGER.hand = (@ + 1) % NUM_FRAMES]]

Clock_select_victim_frame(m) ==
    LET m1 == ClockLoop(m)
    IN  [victim |-> m1.PAGER.hand,
         m |-> [m1 EXCEPT !.PAGER.hand = (@ + 1) % NUM_FRAMES]]

\* NRUPager::get_class_index
get_class_index(pte) == 2 * pte.is_referenced + pte.is_modified

\* NRUPager::select_victim_frame, its for loop from iteration i on. s holds
\* the locals class_frame_map (indexed 0..3), victim_frame_id and
\* lowest_class_found.
RECURSIVE NRULoop(_, _, _, _)
NRULoop(m, s, reset, i) ==
    IF i >= NUM_FRAMES THEN [m |-> m, s |-> s]
    ELSE
        LET idx == (m.PAGER.hand + i) % NUM_FRAMES
            pte == reverse_map(m, idx)
            page_type == get_class_index(Deref(m, pte))
            map1 == IF s.class_frame_map[page_type] = -1
                    THEN [s.class_frame_map EXCEPT ![page_type] = idx]
                    ELSE s.class_frame_map
        IN  IF page_type = 0 /\ ~reset
            THEN [m |-> m,
                  s |-> [class_frame_map |-> map1, victim_frame_id |-> idx,
                         lowest_class_found |-> 0]]
            ELSE NRULoop(
                    IF reset
                    THEN [m EXCEPT !.PROCS[pte[1]].page_table[pte[2]].is_referenced = 0]
                    ELSE m,
                    [s EXCEPT !.class_frame_map = map1], reset, i + 1)

\* NRU with the reset due one instruction late: > in place of >=.
NRU_select_resets_late(m) ==
    LET reset == m.INS_COUNTER > m.PAGER.last_reset + NRU_RESET_COUNT
        r == NRULoop(m, [class_frame_map |-> [c \in 0 .. 3 |-> -1],
                         victim_frame_id |-> -1, lowest_class_found |-> -1], reset, 0)
        found == {c \in 0 .. 3 : r.s.class_frame_map[c] # -1}
        victim_frame_id ==
            IF r.s.lowest_class_found = -1 /\ found # {}
            THEN r.s.class_frame_map[CHOOSE c \in found : \A d \in found : c <= d]
            ELSE r.s.victim_frame_id
    IN  [victim |-> victim_frame_id,
         m |-> [r.m EXCEPT !.PAGER.hand = (victim_frame_id + 1) % NUM_FRAMES,
                           !.PAGER.last_reset = IF reset THEN m.INS_COUNTER ELSE @]]

NRU_select_victim_frame(m) ==
    LET reset == m.INS_COUNTER >= m.PAGER.last_reset + NRU_RESET_COUNT
        r == NRULoop(m, [class_frame_map |-> [c \in 0 .. 3 |-> -1],
                         victim_frame_id |-> -1, lowest_class_found |-> -1], reset, 0)
        found == {c \in 0 .. 3 : r.s.class_frame_map[c] # -1}
        victim_frame_id ==
            IF r.s.lowest_class_found = -1 /\ found # {}
            THEN r.s.class_frame_map[CHOOSE c \in found : \A d \in found : c <= d]
            ELSE r.s.victim_frame_id
    IN  [victim |-> victim_frame_id,
         m |-> [r.m EXCEPT !.PAGER.hand = (victim_frame_id + 1) % NUM_FRAMES,
                           !.PAGER.last_reset = IF reset THEN m.INS_COUNTER ELSE @]]

\* Arithmetic on an age kept as the set of its set bits.
\* age >>= 1
ShiftRight(age) == {b - 1 : b \in age \ {0}}

\* a < b, on unsigned values: the highest bit they differ in is set in b.
AgeLess(a, b) ==
    LET d == (a \ b) \cup (b \ a)
    IN  d # {} /\ MaxOf(d) \in b

RECURSIVE Pow2(_)
Pow2(n) == IF n = 0 THEN 1 ELSE 2 * Pow2(n - 1)

\* The bits of a counter's value (the counters of a bounded trace are small).
BitsOf(n) == {b \in 0 .. 30 : (n \div Pow2(b)) % 2 = 1}

RECURSIVE ValueOf(_)
ValueOf(age) ==
    IF age = {} THEN 0
    ELSE LET b == MaxOf(age) IN Pow2(b) + ValueOf(age \ {b})

\* The for loop keeping the later frame on a tie: <= in place of <.
RECURSIVE AgingLoop_keeps_later(_, _, _, _)
AgingLoop_keeps_later(m, hand, min_age_idx, i) ==
    IF i >= NUM_FRAMES THEN [m |-> m, min_age_idx |-> min_age_idx]
    ELSE
        LET idx == (hand + i) % NUM_FRAMES
            pte == reverse_map(m, idx)
            r == Deref(m, pte).is_referenced
            age1 == ShiftRight(m.FRAME_TABLE[idx].age)
            age2 == IF r = 1 THEN age1 \cup {31} ELSE age1
            m1 == [m EXCEPT !.FRAME_TABLE[idx].age = age2,
                            !.PROCS[pte[1]].page_table[pte[2]].is_referenced = 0]
        IN  AgingLoop_keeps_later(m1, hand,
                IF ~AgeLess(m1.FRAME_TABLE[min_age_idx].age, m1.FRAME_TABLE[idx].age)
                THEN idx ELSE min_age_idx,
                i + 1)

\* AgingPager::select_victim_frame, its for loop from iteration i on.
RECURSIVE AgingLoop(_, _, _, _)
AgingLoop(m, hand, min_age_idx, i) ==
    IF i >= NUM_FRAMES THEN [m |-> m, min_age_idx |-> min_age_idx]
    ELSE
        LET idx == (hand + i) % NUM_FRAMES
            pte == reverse_map(m, idx)
            r == Deref(m, pte).is_referenced
            age1 == ShiftRight(m.FRAME_TABLE[idx].age)
            age2 == IF r = 1 THEN age1 \cup {31} ELSE age1
            m1 == [m EXCEPT !.FRAME_TABLE[idx].age = age2,
                            !.PROCS[pte[1]].page_table[pte[2]].is_referenced = 0]
        IN  AgingLoop(m1, hand,
                      IF AgeLess(m1.FRAME_TABLE[idx].age, m1.FRAME_TABLE[min_age_idx].age)
                      THEN idx ELSE min_age_idx,
                      i + 1)

Aging_select_victim_frame(m) ==
    LET r == AgingLoop(m, m.PAGER.hand, m.PAGER.hand, 0)
    IN  [victim |-> r.min_age_idx,
         m |-> [r.m EXCEPT !.PAGER.hand = (r.min_age_idx + 1) % NUM_FRAMES]]

\* The for loop taking a frame for old one instruction early: >= in place
\* of >.
RECURSIVE WorkingSetLoop_old_early(_, _, _, _)
WorkingSetLoop_old_early(m, hand, oldest_idx, i) ==
    IF i >= NUM_FRAMES THEN [m |-> m, oldest_idx |-> oldest_idx]
    ELSE
        LET idx == (hand + i) % NUM_FRAMES
            pte == reverse_map(m, idx)
            r == Deref(m, pte).is_referenced
            is_old == m.INS_COUNTER >= ValueOf(m.FRAME_TABLE[idx].age) + WORKING_SET_TAU
        IN  IF is_old /\ r = 0
            THEN [m |-> m, oldest_idx |-> idx]
            ELSE
                LET m1 == IF r = 1
                          THEN [m EXCEPT
                                   !.FRAME_TABLE[idx].age = BitsOf(m.INS_COUNTER),
                                   !.PROCS[pte[1]].page_table[pte[2]].is_referenced = 0]
                          ELSE m
                IN  WorkingSetLoop_old_early(m1, hand,
                        IF AgeLess(m1.FRAME_TABLE[idx].age, m1.FRAME_TABLE[oldest_idx].age)
                        THEN idx ELSE oldest_idx,
                        i + 1)

\* WorkingSetPager::select_victim_frame, its for loop from iteration i on.
RECURSIVE WorkingSetLoop(_, _, _, _)
WorkingSetLoop(m, hand, oldest_idx, i) ==
    IF i >= NUM_FRAMES THEN [m |-> m, oldest_idx |-> oldest_idx]
    ELSE
        LET idx == (hand + i) % NUM_FRAMES
            pte == reverse_map(m, idx)
            r == Deref(m, pte).is_referenced
            is_old == m.INS_COUNTER > ValueOf(m.FRAME_TABLE[idx].age) + WORKING_SET_TAU
        IN  IF is_old /\ r = 0
            THEN [m |-> m, oldest_idx |-> idx]
            ELSE
                LET m1 == IF r = 1
                          THEN [m EXCEPT
                                   !.FRAME_TABLE[idx].age = BitsOf(m.INS_COUNTER),
                                   !.PROCS[pte[1]].page_table[pte[2]].is_referenced = 0]
                          ELSE m
                IN  WorkingSetLoop(m1, hand,
                        IF AgeLess(m1.FRAME_TABLE[idx].age, m1.FRAME_TABLE[oldest_idx].age)
                        THEN idx ELSE oldest_idx,
                        i + 1)

WorkingSet_select_victim_frame(m) ==
    LET r == WorkingSetLoop(m, m.PAGER.hand, m.PAGER.hand, 0)
    IN  [victim |-> r.oldest_idx,
         m |-> [r.m EXCEPT !.PAGER.hand = (r.oldest_idx + 1) % NUM_FRAMES]]

\* PAGER->select_victim_frame(): the virtual call.
select_victim_frame(m) ==
    CASE m.PAGER.algo = "f" -> FCFS_select_victim_frame(m)
      [] m.PAGER.algo = "r" -> Random_select_victim_frame(m)
      [] m.PAGER.algo = "c" -> Clock_select_victim_frame(m)
      [] m.PAGER.algo = "e" -> NRU_select_victim_frame(m)
      [] m.PAGER.algo = "a" -> Aging_select_victim_frame(m)
      [] m.PAGER.algo = "w" -> WorkingSet_select_victim_frame(m)

\* PAGER->reset_age(frame_id): Aging zeroes the age, Working-Set stamps it
\* with INS_COUNTER, the other pagers do nothing.
reset_age(m, frame_id) ==
    CASE m.PAGER.algo = "a" -> [m EXCEPT !.FRAME_TABLE[frame_id].age = {}]
      [] m.PAGER.algo = "w" -> [m EXCEPT !.FRAME_TABLE[frame_id].age = BitsOf(m.INS_COUNTER)]
      [] OTHER -> m

\* ------------------------------------------------------------ frame table

\* get_frame with the pop_front of the free list forgotten.
get_frame_no_pop(m) ==
    IF m.FREE_FRAMES # <<>>
    THEN [frame |-> Head(m.FREE_FRAMES), m |-> m]
    ELSE LET r == select_victim_frame(m)
         IN  [frame |-> r.victim, m |-> [r.m EXCEPT !.victim = r.victim]]

\* get_frame (with allocate_frame_from_free_list): the head of the free list,
\* or the pager's victim when the list is empty.
get_frame(m) ==
    IF m.FREE_FRAMES # <<>>
    THEN [frame |-> Head(m.FREE_FRAMES),
          m |-> [m EXCEPT !.FREE_FRAMES = Tail(@)]]
    ELSE LET r == select_victim_frame(m)
         IN  [frame |-> r.victim, m |-> [r.m EXCEPT !.victim = r.victim]]

\* --------------------------------------------------------------- handlers

\* handle_context_switch
handle_context_switch(m, target) ==
    [m EXCEPT !.CURR_PROC = target,
              !.CTX_SWITCHES = @ + 1,
              !.COST = @ + CTX_SWITCH_TIME]

\* check_validity_and_cache_details: whether vpage is in a VMA of the current
\* process; the first time, the VMA's attributes are cached in the entry.
check_validity_and_cache_details(m, vpage) ==
    LET pid == m.CURR_PROC
        pte == m.PROCS[pid].page_table[vpage]
        hits == {i \in 1 .. num_vmas(pid) :
                    /\ vpage >= vma_list(pid)[i].start_page
                    /\ vpage <= vma_list(pid)[i].end_page}
    IN  IF pte.is_assigned_to_vma = 1 THEN [is_valid |-> TRUE, m |-> m]
        ELSE IF hits # {}
        THEN LET vma == vma_list(pid)[CHOOSE i \in hits : \A j \in hits : i <= j]
             IN  [is_valid |-> TRUE,
                  m |-> [m EXCEPT
                      !.PROCS[pid].page_table[vpage].is_assigned_to_vma = 1,
                      !.PROCS[pid].page_table[vpage].is_write_protected = vma.is_write_protected,
                      !.PROCS[pid].page_table[vpage].is_file_mapped = vma.is_file_mapped]]
        ELSE [is_valid |-> FALSE, m |-> m]

\* The victim's unmap forgetting the swap copy of a clean page: is_paged_out
\* is cleared when the victim is not modified.
unmap_victim_frame_forgets_swap(m, f) ==
    LET old_vpage == m.FRAME_TABLE[f].vpage
        old_pid == m.FRAME_TABLE[f].pid
        old_pte == m.PROCS[old_pid].page_table[old_vpage]
        m1 == [printf(m, "UNMAP", old_pid, old_vpage) EXCEPT
                  !.PROCS[old_pid].page_table[old_vpage].is_present = 0,
                  !.PROCS[old_pid].unmaps = @ + 1,
                  !.COST = @ + UNMAPS_TIME]
    IN  IF old_pte.is_modified = 1
        THEN IF old_pte.is_file_mapped = 1
             THEN [printf(m1, "FOUT", -1, -1) EXCEPT
                      !.PROCS[old_pid].fouts = @ + 1,
                      !.COST = @ + FOUTS_TIME,
                      !.PROCS[old_pid].page_table[old_vpage].is_modified = 0]
             ELSE [printf(m1, "OUT", -1, -1) EXCEPT
                      !.PROCS[old_pid].page_table[old_vpage].is_paged_out = 1,
                      !.PROCS[old_pid].outs = @ + 1,
                      !.COST = @ + OUTS_TIME,
                      !.PROCS[old_pid].page_table[old_vpage].is_modified = 0]
        ELSE [m1 EXCEPT !.PROCS[old_pid].page_table[old_vpage].is_paged_out = 0]

\* unmap_victim_frame with the old entry left present.
unmap_victim_frame_keeps_present(m, f) ==
    LET old_vpage == m.FRAME_TABLE[f].vpage
        old_pid == m.FRAME_TABLE[f].pid
    IN  [printf(m, "UNMAP", old_pid, old_vpage) EXCEPT
            !.PROCS[old_pid].unmaps = @ + 1,
            !.COST = @ + UNMAPS_TIME,
            !.PROCS[old_pid].page_table[old_vpage].is_modified = 0]

\* unmap_victim_frame that marks every modified page paged-out, file-mapped
\* or not.
unmap_victim_frame_pages_out_files(m, f) ==
    LET old_vpage == m.FRAME_TABLE[f].vpage
        old_pid == m.FRAME_TABLE[f].pid
        old_pte == m.PROCS[old_pid].page_table[old_vpage]
        m1 == [printf(m, "UNMAP", old_pid, old_vpage) EXCEPT
                  !.PROCS[old_pid].page_table[old_vpage].is_present = 0,
                  !.PROCS[old_pid].unmaps = @ + 1,
                  !.COST = @ + UNMAPS_TIME]
    IN  IF old_pte.is_modified = 1
        THEN IF old_pte.is_file_mapped = 1
             THEN [printf(m1, "FOUT", -1, -1) EXCEPT
                      !.PROCS[old_pid].page_table[old_vpage].is_paged_out = 1,
                      !.PROCS[old_pid].fouts = @ + 1,
                      !.COST = @ + FOUTS_TIME,
                      !.PROCS[old_pid].page_table[old_vpage].is_modified = 0]
             ELSE [printf(m1, "OUT", -1, -1) EXCEPT
                      !.PROCS[old_pid].page_table[old_vpage].is_paged_out = 1,
                      !.PROCS[old_pid].outs = @ + 1,
                      !.COST = @ + OUTS_TIME,
                      !.PROCS[old_pid].page_table[old_vpage].is_modified = 0]
        ELSE m1

\* unmap_victim_frame: UNMAP the frame's owner; a modified page is written
\* back (FOUT for a file mapping, else OUT and is_paged_out) and M is cleared.
unmap_victim_frame(m, f) ==
    LET old_vpage == m.FRAME_TABLE[f].vpage
        old_pid == m.FRAME_TABLE[f].pid
        old_pte == m.PROCS[old_pid].page_table[old_vpage]
        m1 == [printf(m, "UNMAP", old_pid, old_vpage) EXCEPT
                  !.PROCS[old_pid].page_table[old_vpage].is_present = 0,
                  !.PROCS[old_pid].unmaps = @ + 1,
                  !.COST = @ + UNMAPS_TIME]
    IN  IF old_pte.is_modified = 1
        THEN IF old_pte.is_file_mapped = 1
             THEN [printf(m1, "FOUT", -1, -1) EXCEPT
                      !.PROCS[old_pid].fouts = @ + 1,
                      !.COST = @ + FOUTS_TIME,
                      !.PROCS[old_pid].page_table[old_vpage].is_modified = 0]
             ELSE [printf(m1, "OUT", -1, -1) EXCEPT
                      !.PROCS[old_pid].page_table[old_vpage].is_paged_out = 1,
                      !.PROCS[old_pid].outs = @ + 1,
                      !.COST = @ + OUTS_TIME,
                      !.PROCS[old_pid].page_table[old_vpage].is_modified = 0]
        ELSE m1

\* The fill event with a zero-filled page charged as a page-in.
fill_page_zero_as_in(m, vpage) ==
    LET pid == m.CURR_PROC
        pte == m.PROCS[pid].page_table[vpage]
    IN  IF pte.is_file_mapped = 1
        THEN [printf(m, "FIN", -1, -1) EXCEPT
                 !.PROCS[pid].fins = @ + 1, !.COST = @ + FINS_TIME]
        ELSE IF pte.is_paged_out = 1
        THEN [printf(m, "IN", -1, -1) EXCEPT
                 !.PROCS[pid].ins = @ + 1, !.COST = @ + INS_TIME]
        ELSE [printf(m, "ZERO", -1, -1) EXCEPT
                 !.PROCS[pid].zeros = @ + 1, !.COST = @ + INS_TIME]

\* The fill event with the paged-out test left out: an anonymous page is
\* always zero-filled.
fill_page_ignores_paged_out(m, vpage) ==
    LET pid == m.CURR_PROC
        pte == m.PROCS[pid].page_table[vpage]
    IN  IF pte.is_file_mapped = 1
        THEN [printf(m, "FIN", -1, -1) EXCEPT
                 !.PROCS[pid].fins = @ + 1, !.COST = @ + FINS_TIME]
        ELSE [printf(m, "ZERO", -1, -1) EXCEPT
                 !.PROCS[pid].zeros = @ + 1, !.COST = @ + ZEROS_TIME]

\* handle_load_store, lines 765-777: the fill event of the faulting page.
fill_page(m, vpage) ==
    LET pid == m.CURR_PROC
        pte == m.PROCS[pid].page_table[vpage]
    IN  IF pte.is_file_mapped = 1
        THEN [printf(m, "FIN", -1, -1) EXCEPT
                 !.PROCS[pid].fins = @ + 1, !.COST = @ + FINS_TIME]
        ELSE IF pte.is_paged_out = 1
        THEN [printf(m, "IN", -1, -1) EXCEPT
                 !.PROCS[pid].ins = @ + 1, !.COST = @ + INS_TIME]
        ELSE [printf(m, "ZERO", -1, -1) EXCEPT
                 !.PROCS[pid].zeros = @ + 1, !.COST = @ + ZEROS_TIME]

\* The mapping with the frame's is_victim flag left as it was.
map_page_no_victim_flag(m, vpage, new_frame) ==
    LET pid == m.CURR_PROC
        m1 == [m EXCEPT
                  !.FRAME_TABLE[new_frame].pid = pid,
                  !.FRAME_TABLE[new_frame].vpage = vpage,
                  !.FRAME_TABLE[new_frame].is_assigned = TRUE,
                  !.PROCS[pid].page_table[vpage].is_present = 1,
                  !.PROCS[pid].page_table[vpage].frame_num = new_frame]
        m2 == [printf(m1, "MAP", new_frame, -1) EXCEPT
                  !.PROCS[pid].maps = @ + 1, !.COST = @ + MAPS_TIME]
    IN  reset_age(m2, new_frame)

\* The mapping with the maps counter forgotten.
map_page_no_count(m, vpage, new_frame) ==
    LET pid == m.CURR_PROC
        m1 == [m EXCEPT
                  !.FRAME_TABLE[new_frame].is_victim = TRUE,
                  !.FRAME_TABLE[new_frame].pid = pid,
                  !.FRAME_TABLE[new_frame].vpage = vpage,
                  !.FRAME_TABLE[new_frame].is_assigned = TRUE,
                  !.PROCS[pid].page_table[vpage].is_present = 1,
                  !.PROCS[pid].page_table[vpage].frame_num = new_frame]
    IN  reset_age([printf(m1, "MAP", new_frame, -1) EXCEPT !.COST = @ + MAPS_TIME],
                  new_frame)

\* handle_load_store, lines 779-793: the frame and the entry point at each
\* other, MAP is counted and the pager resets the frame's age.
map_page(m, vpage, new_frame) ==
    LET pid == m.CURR_PROC
        m1 == [m EXCEPT
                  !.FRAME_TABLE[new_frame].is_victim = TRUE,
                  !.FRAME_TABLE[new_frame].pid = pid,
                  !.FRAME_TABLE[new_frame].vpage = vpage,
                  !.FRAME_TABLE[new_frame].is_assigned = TRUE,
                  !.PROCS[pid].page_table[vpage].is_present = 1,
                  !.PROCS[pid].page_table[vpage].frame_num = new_frame]
        m2 == [printf(m1, "MAP", new_frame, -1) EXCEPT
                  !.PROCS[pid].maps = @ + 1, !.COST = @ + MAPS_TIME]
    IN  reset_age(m2, new_frame)

\* The reference with M set on every write, write-protected or not.
reference_page_modifies_protected(m, op, vpage) ==
    LET pid == m.CURR_PROC
        m1 == [m EXCEPT !.PROCS[pid].page_table[vpage].is_referenced = 1]
    IN  IF op = "w"
        THEN LET m2 == [m1 EXCEPT !.PROCS[pid].page_table[vpage].is_modified = 1]
             IN  IF m1.PROCS[pid].page_table[vpage].is_write_protected = 1
                 THEN [printf(m2, "SEGPROT", -1, -1) EXCEPT
                          !.PROCS[pid].segprot = @ + 1, !.COST = @ + SEGPROT_TIME]
                 ELSE m2
        ELSE m1

\* The reference with M set by a read as well as by a write.
reference_page_read_modifies(m, op, vpage) ==
    LET pid == m.CURR_PROC
        m1 == [m EXCEPT !.PROCS[pid].page_table[vpage].is_referenced = 1]
    IN  IF op = "w" /\ m1.PROCS[pid].page_table[vpage].is_write_protected = 1
        THEN [printf(m1, "SEGPROT", -1, -1) EXCEPT
                 !.PROCS[pid].segprot = @ + 1, !.COST = @ + SEGPROT_TIME]
        ELSE [m1 EXCEPT !.PROCS[pid].page_table[vpage].is_modified = 1]

\* handle_load_store, lines 796-806: R is set; a write sets M unless the
\* page is write-protected, which is a SEGPROT.
reference_page(m, op, vpage) ==
    LET pid == m.CURR_PROC
        m1 == [m EXCEPT !.PROCS[pid].page_table[vpage].is_referenced = 1]
    IN  IF op = "w"
        THEN IF m1.PROCS[pid].page_table[vpage].is_write_protected = 1
             THEN [printf(m1, "SEGPROT", -1, -1) EXCEPT
                      !.PROCS[pid].segprot = @ + 1, !.COST = @ + SEGPROT_TIME]
             ELSE [m1 EXCEPT !.PROCS[pid].page_table[vpage].is_modified = 1]
        ELSE m1

\* The SEGV path with its return forgotten: the handler goes on to set R
\* (and M on a write).
segmentation_violation_no_return(m, op, vpage) ==
    reference_page([printf(m, "SEGV", -1, -1) EXCEPT
                       !.PROCS[m.CURR_PROC].segv = @ + 1, !.COST = @ + SEGV_TIME],
                   op, vpage)

\* handle_load_store, lines 750-757: the page is in no VMA; SEGV is counted
\* and the handler returns.
segmentation_violation(m, op, vpage) ==
    [printf(m, "SEGV", -1, -1) EXCEPT
        !.PROCS[m.CURR_PROC].segv = @ + 1, !.COST = @ + SEGV_TIME]

\* handle_load_store
handle_load_store(m, op, vpage) ==
    LET pid == m.CURR_PROC
        m1 == [m EXCEPT !.COST = @ + LD_ST_TIME]
    IN  IF m1.PROCS[pid].page_table[vpage].is_present = 0
        THEN LET chk == check_validity_and_cache_details(m1, vpage)
             IN  IF ~chk.is_valid
                 THEN segmentation_violation(chk.m, op, vpage)
                 ELSE LET g == get_frame(chk.m)
                          m2 == IF g.m.FRAME_TABLE[g.frame].is_victim
                                THEN unmap_victim_frame(g.m, g.frame)
                                ELSE g.m
                      IN  reference_page(map_page(fill_page(m2, vpage), vpage, g.frame),
                                         op, vpage)
        ELSE reference_page(m1, op, vpage)

\* The exit loop pushing each freed frame on the head of the free list.
RECURSIVE ExitLoop_push_front(_, _, _)
ExitLoop_push_front(m, target, i) ==
    LET present == {v \in i .. (MAX_VPAGES - 1) :
                       m.PROCS[target].page_table[v].is_present = 1}
    IN  IF present = {} THEN m
        ELSE
            LET v == CHOOSE x \in present : \A y \in present : x <= y
                pte == m.PROCS[target].page_table[v]
                frame == pte.frame_num
                pid == m.FRAME_TABLE[frame].pid
                vpage == m.FRAME_TABLE[frame].vpage
                u == [printf(m, "UNMAP", pid, vpage) EXCEPT
                         !.PROCS[pid].unmaps = @ + 1,
                         !.COST = @ + UNMAPS_TIME,
                         !.FRAME_TABLE[frame].is_assigned = FALSE,
                         !.FRAME_TABLE[frame].pid = -1,
                         !.FRAME_TABLE[frame].vpage = -1,
                         !.FRAME_TABLE[frame].is_victim = FALSE,
                         !.FREE_FRAMES = <<frame>> \o @]
            IN  ExitLoop_push_front(IF pte.is_modified = 1 /\ pte.is_file_mapped = 1
                                    THEN [printf(u, "FOUT", -1, -1) EXCEPT
                                             !.PROCS[pid].fouts = @ + 1,
                                             !.COST = @ + FOUTS_TIME]
                                    ELSE u,
                                    target, v + 1)

\* The exit loop treating a modified anonymous page as unmap_victim_frame
\* does: OUT is counted and the page is marked paged-out.
RECURSIVE ExitLoop_pages_out(_, _, _)
ExitLoop_pages_out(m, target, i) ==
    LET present == {v \in i .. (MAX_VPAGES - 1) :
                       m.PROCS[target].page_table[v].is_present = 1}
    IN  IF present = {} THEN m
        ELSE
            LET v == CHOOSE x \in present : \A y \in present : x <= y
                pte == m.PROCS[target].page_table[v]
                frame == pte.frame_num
                pid == m.FRAME_TABLE[frame].pid
                vpage == m.FRAME_TABLE[frame].vpage
                u == [printf(m, "UNMAP", pid, vpage) EXCEPT
                         !.PROCS[pid].unmaps = @ + 1,
                         !.COST = @ + UNMAPS_TIME,
                         !.FRAME_TABLE[frame].is_assigned = FALSE,
                         !.FRAME_TABLE[frame].pid = -1,
                         !.FRAME_TABLE[frame].vpage = -1,
                         !.FRAME_TABLE[frame].is_victim = FALSE,
                         !.FREE_FRAMES = Append(@, frame)]
            IN  ExitLoop_pages_out(
                    IF pte.is_modified = 1
                    THEN IF pte.is_file_mapped = 1
                         THEN [printf(u, "FOUT", -1, -1) EXCEPT
                                  !.PROCS[pid].fouts = @ + 1,
                                  !.COST = @ + FOUTS_TIME]
                         ELSE [printf(u, "OUT", -1, -1) EXCEPT
                                  !.PROCS[pid].outs = @ + 1,
                                  !.COST = @ + OUTS_TIME]
                    ELSE u,
                    target, v + 1)

\* handle_process_exit, the body of its for loop for the present pages at or
\* above page i, in ascending order: UNMAP, the frame goes back to the tail
\* of the free list, and a modified file-mapped page is written back (FOUT).
RECURSIVE ExitLoop(_, _, _)
ExitLoop(m, target, i) ==
    LET present == {v \in i .. (MAX_VPAGES - 1) :
                       m.PROCS[target].page_table[v].is_present = 1}
    IN  IF present = {} THEN m
        ELSE
            LET v == CHOOSE x \in present : \A y \in present : x <= y
                pte == m.PROCS[target].page_table[v]
                frame == pte.frame_num
                pid == m.FRAME_TABLE[frame].pid
                vpage == m.FRAME_TABLE[frame].vpage
                u == [printf(m, "UNMAP", pid, vpage) EXCEPT
                         !.PROCS[pid].unmaps = @ + 1,
                         !.COST = @ + UNMAPS_TIME,
                         !.FRAME_TABLE[frame].is_assigned = FALSE,
                         !.FRAME_TABLE[frame].pid = -1,
                         !.FRAME_TABLE[frame].vpage = -1,
                         !.FRAME_TABLE[frame].is_victim = FALSE,
                         !.FREE_FRAMES = Append(@, frame)]
            IN  ExitLoop(IF pte.is_modified = 1 /\ pte.is_file_mapped = 1
                         THEN [printf(u, "FOUT", -1, -1) EXCEPT
                                  !.PROCS[pid].fouts = @ + 1,
                                  !.COST = @ + FOUTS_TIME]
                         ELSE u,
                         target, v + 1)

\* The clearing of line 847 done for the present pages only.
clear_page_table_present_only(m, target) ==
    [m EXCEPT !.PROCS[target].page_table =
        [v \in VPages |-> IF @[v].is_present = 1
                          THEN [@[v] EXCEPT !.is_present = 0,
                                            !.is_referenced = 0,
                                            !.is_paged_out = 0]
                          ELSE @[v]]]

\* handle_process_exit, line 847: every entry of the target's page table,
\* present or not, loses is_present, is_referenced and is_paged_out.
clear_page_table(m, target) ==
    [m EXCEPT !.PROCS[target].page_table =
        [v \in VPages |-> [@[v] EXCEPT !.is_present = 0,
                                       !.is_referenced = 0,
                                       !.is_paged_out = 0]]]

handle_process_exit(m, target) ==
    clear_page_table(
        ExitLoop([printf(m, "EXIT", target, -1) EXCEPT
                     !.PROC_EXITS = @ + 1, !.COST = @ + PROC_EXIT_TIME],
                 target, 0),
        target)

\* ----------------------------------------------------------------- driver

\* run_simulation, one turn of its loop: the instruction is fetched,
\* INS_COUNTER advances and the handler of the opcode runs.
run_simulation(op, target) ==
    LET m == [Machine EXCEPT !.ins = [op |-> op, addr |-> target],
                             !.INS_COUNTER = @ + 1]
    IN  CASE op = "c" -> handle_context_switch(m, target)
          [] op \in {"r", "w"} -> handle_load_store(m, op, target)
          [] op = "e" -> handle_process_exit(m, target)

\* The trace has another instruction, c target.
ContextSwitch(target) ==
    /\ INS_COUNTER < MaxIns
    /\ Commit(run_simulation("c", target))

\* The trace has another instruction, r vpage or w vpage. Before the first
\* context switch CURR_PROC is null and the handler's dereference of it ends
\* the program.
LoadStore(op, vpage) ==
    /\ INS_COUNTER < MaxIns
    /\ CURR_PROC # -1
    /\ Commit(run_simulation(op, vpage))

\* The trace has another instruction, e target.
ProcessExit(target) ==
    /\ INS_COUNTER < MaxIns
    /\ Commit(run_simulation("e", target))

Next ==
    \/ \E target \in Pids : ContextSwitch(target)
    \/ \E op \in {"r", "w"}, vpage \in Addrs : LoadStore(op, vpage)
    \/ \E target \in Pids : ProcessExit(target)

Spec == Init /\ [][Next]_vars


\* ------------------------------------------------- the read-only scenario

\* The scenario's input file: one process whose single VMA covers pages 0..9
\* and is neither write-protected nor file-mapped.
ScenarioVMAS ==
    << << [start_page |-> 0, end_page |-> 9, is_write_protected |-> 0, is_file_mapped |-> 0] >> >>

\* The number of instructions of a scenario trace that are executed.
ScenarioLen == 6

\* The pages a scenario trace reads: one more than there are frames.
ScenarioAddrs == 0 .. NUM_FRAMES

\* The scenario runs with -f4 under each pager.
ScenarioInit == Load(4, ScenarioVMAS, Algos)

\* The trace starts with c 0, its only context switch.
ScenarioSwitch ==
    /\ CURR_PROC = -1
    /\ Commit(run_simulation("c", 0))

\* The trace goes on with r vpage.
ScenarioRead(vpage) ==
    /\ CURR_PROC # -1
    /\ INS_COUNTER < ScenarioLen
    /\ Commit(run_simulation("r", vpage))

\* The trace goes on with e 0.
ScenarioExit ==
    /\ CURR_PROC # -1
    /\ INS_COUNTER < ScenarioLen
    /\ Commit(run_simulation("e", 0))

ScenarioNext ==
    \/ ScenarioSwitch
    \/ \E vpage \in ScenarioAddrs : ScenarioRead(vpage)
    \/ ScenarioExit

\* The traces c 0, then reads of anonymous pages and exits, without a write.
SpecScenario == ScenarioInit /\ [][ScenarioNext]_vars

\* ----------------------------------------------------------------- claims

\* ------------------------------------------------------- the pager runs

\* The number of frames (-f) of the pager runs.
PagerFrames == 3

\* A pager run executes instructions 1 .. PagerLen: long enough for NRU's
\* second reset.
PagerLen == 2 * NRU_RESET_COUNT + 1

\* The instructions of a pager run that are reads: those numbered one less
\* than, equal to and one more than a multiple of NRU's reset period.
InBurst == (INS_COUNTER + 1) % NRU_RESET_COUNT \in {NRU_RESET_COUNT - 1, 0, 1}

\* A pager run has the scenario's process (one anonymous VMA) and one pager.
PagerInit(algo) == Load(PagerFrames, ScenarioVMAS, {algo})

\* Instruction 1 is c 0.
PagerSwitch ==
    /\ INS_COUNTER = 0
    /\ Commit(run_simulation("c", 0))

\* Instructions 2 .. NUM_FRAMES + 1 read or write pages 0, 1, ... in turn
\* and fill the frames.
PagerFill(op) ==
    /\ 1 <= INS_COUNTER
    /\ INS_COUNTER <= NUM_FRAMES
    /\ Commit(run_simulation(op, INS_COUNTER - 1))

\* Outside the bursts the trace idles with c 0, a switch to the running
\* process.
PagerIdle ==
    /\ NUM_FRAMES < INS_COUNTER
    /\ INS_COUNTER < PagerLen
    /\ ~InBurst
    /\ Commit(run_simulation("c", 0))

\* In a burst the trace reads one of the pages 0 .. NUM_FRAMES.
PagerRead(vpage) ==
    /\ NUM_FRAMES < INS_COUNTER
    /\ INS_COUNTER < PagerLen
    /\ InBurst
    /\ Commit(run_simulation("r", vpage))

PagerNext ==
    \/ PagerSwitch
    \/ \E op \in {"r", "w"} : PagerFill(op)
    \/ PagerIdle
    \/ \E vpage \in 0 .. NUM_FRAMES : PagerRead(vpage)

ClockInit == PagerInit("c")

SpecClock == ClockInit /\ [][PagerNext]_vars

NRUInit == PagerInit("e")

SpecNRU == NRUInit /\ [][PagerNext]_vars

AgingInit == PagerInit("a")

SpecAging == AgingInit /\ [][PagerNext]_vars

WorkingSetInit == PagerInit("w")

SpecWorkingSet == WorkingSetInit /\ [][PagerNext]_vars

\* ------------------------------------------------------ the Random runs

\* The number of instructions of a Random run that are executed.
RandomLen == 8

\* The pages a Random run reads: the pages of process 0's VMAs and the page
\* above them, which is in no VMA.
RandomAddrs == 0 .. (MaxOf(UNION {{VMAS[1][i].end_page} : i \in 1 .. Len(VMAS[1])}) + 1)

\* A Random run has the general runs' frames and input file.
RandomInit == Load(SmallFrames, InputVMAS, {"r"})

\* c 0: the first instruction, and a switch to the running process later.
RandomSwitch ==
    /\ INS_COUNTER < RandomLen
    /\ Commit(run_simulation("c", 0))

\* r vpage by process 0.
RandomRead(vpage) ==
    /\ CURR_PROC # -1
    /\ INS_COUNTER < RandomLen
    /\ Commit(run_simulation("r", vpage))

\* e 0
RandomExit ==
    /\ CURR_PROC # -1
    /\ INS_COUNTER < RandomLen
    /\ Commit(run_simulation("e", 0))

RandomNext ==
    \/ RandomSwitch
    \/ \E vpage \in RandomAddrs : RandomRead(vpage)
    \/ RandomExit

SpecRandom == RandomInit /\ [][RandomNext]_vars

\* -------------------------------------------------------- the swap runs

\* The number of instructions of a swap run that are executed.
SwapLen == 8

\* A swap run has the general runs' frames and input file, under any pager.
SwapInit == Load(SmallFrames, InputVMAS, Algos)

\* Instruction 1 is c 0, the run's only context switch.
SwapSwitch ==
    /\ CURR_PROC = -1
    /\ Commit(run_simulation("c", 0))

\* w 0: process 0 writes its anonymous page.
SwapWrite ==
    /\ CURR_PROC # -1
    /\ INS_COUNTER < SwapLen
    /\ Commit(run_simulation("w", 0))

\* r vpage: process 0 reads one of its pages.
SwapRead(vpage) ==
    /\ CURR_PROC # -1
    /\ INS_COUNTER < SwapLen
    /\ Commit(run_simulation("r", vpage))

\* e 0
SwapExit ==
    /\ CURR_PROC # -1
    /\ INS_COUNTER < SwapLen
    /\ Commit(run_simulation("e", 0))

SwapNext ==
    \/ SwapSwitch
    \/ SwapWrite
    \/ \E vpage \in Addrs : SwapRead(vpage)
    \/ SwapExit

SpecSwap == SwapInit /\ [][SwapNext]_vars

Pages == Pids \X VPages

PTE(p, v) == PROCS[p].page_table[v]

\* The frames assigned to page (p, v).
Owners(p, v) ==
    {f \in Frames : /\ FRAME_TABLE[f].is_assigned
                    /\ FRAME_TABLE[f].pid = p
                    /\ FRAME_TABLE[f].vpage = v}

AssignedFrames == {f \in Frames : FRAME_TABLE[f].is_assigned}

RECURSIVE SumOver(_, _)
SumOver(S, counter) ==
    IF S = {} THEN 0
    ELSE LET p == CHOOSE x \in S : TRUE
         IN  PROCS[p][counter] + SumOver(S \ {p}, counter)

Total(counter) == SumOver(Pids, counter)

\* The event words of the last instruction.
Emitted == {out[i].e : i \in 1 .. Len(out)}

\* C1: after every instruction a page table entry is present if and only if
\* exactly one assigned frame names its (pid, vpage), that frame is the
\* entry's frame_num, and every assigned frame names a present entry.
C1_PresentIffOneFrame ==
    /\ \A pg \in Pages :
          /\ PTE(pg[1], pg[2]).is_present = 1 <=> Cardinality(Owners(pg[1], pg[2])) = 1
          /\ PTE(pg[1], pg[2]).is_present = 1 =>
                 Owners(pg[1], pg[2]) = {PTE(pg[1], pg[2]).frame_num}
    /\ \A f \in AssignedFrames :
          /\ <<FRAME_TABLE[f].pid, FRAME_TABLE[f].vpage>> \in Pages
          /\ PTE(FRAME_TABLE[f].pid, FRAME_TABLE[f].vpage).is_present = 1

\* A victim was just replaced: one page is present in the victim's frame and
\* its previous owner is not present any more.
C1_Witness ==
    /\ victim # -1
    /\ Total("unmaps") >= 1
    /\ FRAME_TABLE[victim].is_assigned
    /\ PTE(FRAME_TABLE[victim].pid, FRAME_TABLE[victim].vpage).frame_num = victim
    /\ \E pg \in Pages : PTE(pg[1], pg[2]).is_present = 0 /\ PTE(pg[1], pg[2]).is_assigned_to_vma = 1

\* The number of times frame f is on the free list.
FreeCount(f) == Cardinality({i \in 1 .. Len(FREE_FRAMES) : FREE_FRAMES[i] = f})

\* C2: after every instruction the free list and the assigned frames
\* partition the frame indices: each frame is on the free list exactly once
\* and not assigned, or assigned and not on the free list.
C2_FreeListPartition ==
    /\ \A i \in 1 .. Len(FREE_FRAMES) : FREE_FRAMES[i] \in Frames
    /\ \A f \in Frames :
          \/ FreeCount(f) = 1 /\ ~FRAME_TABLE[f].is_assigned
          \/ FreeCount(f) = 0 /\ FRAME_TABLE[f].is_assigned

\* An exit has put a frame back on the free list while another frame stays
\* assigned.
C2_Witness ==
    /\ PROC_EXITS > 0
    /\ Total("unmaps") > 0
    /\ FREE_FRAMES # <<>>
    /\ AssignedFrames # {}

\* C3: after every instruction the maps of all processes equal their unmaps
\* plus the number of assigned frames.
C3_MapsBalance ==
    Total("maps") = Total("unmaps") + Cardinality(AssignedFrames)

\* Pages were unmapped both by a victim's replacement and by an exit: more
\* pages were unmapped than there are frames, and a process has exited.
C3_Witness ==
    /\ PROC_EXITS > 0
    /\ Total("unmaps") > NUM_FRAMES
    /\ Total("maps") > NUM_FRAMES

\* C4: after every instruction COST is 1 per r/w instruction executed, 130
\* per context switch, 1230 per exit, and per process 350 maps + 410 unmaps +
\* 3200 ins + 2750 outs + 2350 fins + 2800 fouts + 150 zeros + 440 segv +
\* 410 segprot. The r/w instructions executed are those that are neither a
\* context switch nor an exit.
C4_CostFormula ==
    COST = 1 * (INS_COUNTER - CTX_SWITCHES - PROC_EXITS)
           + 130 * CTX_SWITCHES + 1230 * PROC_EXITS
           + 350 * Total("maps") + 410 * Total("unmaps")
           + 3200 * Total("ins") + 2750 * Total("outs")
           + 2350 * Total("fins") + 2800 * Total("fouts")
           + 150 * Total("zeros") + 440 * Total("segv") + 410 * Total("segprot")

\* A trace with a page-in, a page-out, a file-in, a zero fill and an unmap.
C4_Witness ==
    /\ Total("ins") > 0
    /\ Total("outs") > 0
    /\ Total("fins") > 0
    /\ Total("zeros") > 0
    /\ Total("unmaps") > 0

\* The page the last instruction mapped, when it mapped one.
Mapped == {pg \in Pages : /\ "MAP" \in Emitted
                          /\ ins.op \in {"r", "w"}
                          /\ pg = <<CURR_PROC, ins.addr>>}

\* C5: after every instruction no entry is both paged-out and file-mapped,
\* and a file-mapped page that was just mapped was filled with FIN, never IN.
C5_NoPagedOutFileMapped ==
    /\ \A pg \in Pages :
          ~(PTE(pg[1], pg[2]).is_paged_out = 1 /\ PTE(pg[1], pg[2]).is_file_mapped = 1)
    /\ \A pg \in Mapped :
          PTE(pg[1], pg[2]).is_file_mapped = 1 => "FIN" \in Emitted /\ "IN" \notin Emitted

\* A modified file-mapped page was unmapped with FOUT and a file-mapped page
\* of that process has just been mapped again, with FIN.
C5_Witness ==
    /\ \E pg \in Mapped : PTE(pg[1], pg[2]).is_file_mapped = 1 /\ PROCS[pg[1]].fouts > 0
    /\ "FIN" \in Emitted
    /\ Total("fins") >= 2

\* C6: after every instruction every entry that is not present has
\* is_modified = 0.
C6_NotPresentNotModified ==
    \A pg \in Pages :
        PTE(pg[1], pg[2]).is_present = 0 => PTE(pg[1], pg[2]).is_modified = 0

\* C7, as claimed: after every instruction, under every pager, every entry
\* that is not present has is_referenced = 0.
C7_NotPresentNotReferenced ==
    \A pg \in Pages :
        PTE(pg[1], pg[2]).is_present = 0 => PTE(pg[1], pg[2]).is_referenced = 0

\* C7, amended: under the Clock, Aging and Working-Set pagers, after every
\* instruction every entry that is not present has is_referenced = 0.
C7_NotPresentNotReferenced_ClockAgingWS ==
    PAGER.algo \in {"c", "a", "w"} => C7_NotPresentNotReferenced

\* Clock, Aging or Working-Set has just replaced a victim: the page it
\* unmapped is not present and its R bit is clear.
C7_Witness ==
    /\ PAGER.algo \in {"c", "a", "w"}
    /\ victim # -1
    /\ "UNMAP" \in Emitted
    /\ \E i \in 1 .. Len(out) :
          /\ out[i].e = "UNMAP"
          /\ PTE(out[i].x, out[i].y).is_present = 0
          /\ PTE(out[i].x, out[i].y).is_referenced = 0

\* C8: for FIFO, Clock, NRU, Aging and Working-Set, an instruction in which
\* select_victim_frame was called leaves the hand one past the returned
\* victim modulo NUM_FRAMES, and every other instruction leaves the hand
\* as it was.
C8_HandFollowsVictim ==
    [][PAGER.algo \in {"f", "c", "e", "a", "w"} =>
          IF victim' # -1
          THEN PAGER'.hand = (victim' + 1) % NUM_FRAMES
          ELSE PAGER'.hand = PAGER.hand]_vars

\* The last frame was just taken as the victim and the hand wrapped to 0.
C8_Witness ==
    /\ PAGER.algo \in {"f", "c", "e", "a", "w"}
    /\ victim = NUM_FRAMES - 1
    /\ PAGER.hand = 0

\* vpage lies in no VMA of process pid.
InNoVMA(pid, vpage) ==
    \A i \in 1 .. Len(VMAS[pid + 1]) :
        vpage < VMAS[pid + 1][i].start_page \/ vpage > VMAS[pid + 1][i].end_page

\* The step executes an r or w instruction.
LoadStoreStep == INS_COUNTER' = INS_COUNTER + 1 /\ ins'.op \in {"r", "w"}

\* C9: an r or w of the current process to a page that is not present and
\* lies in none of its VMAs is a SEGV: segv grows by 1 and COST by 1 + 440,
\* the only event is SEGV, and nothing else changes: the entry's R and M bits
\* were 0 and stay 0, no page table entry, frame, free-list entry, pager
\* field, RNG cursor or other counter changes, and the pager is not called.
C9_SegvChangesNothingElse ==
    [][(/\ LoadStoreStep
        /\ PTE(CURR_PROC, ins'.addr).is_present = 0
        /\ InNoVMA(CURR_PROC, ins'.addr))
       =>
       (/\ PROCS' = [PROCS EXCEPT ![CURR_PROC].segv = @ + 1]
        /\ COST' = COST + 1 + 440
        /\ out' = <<Ev("SEGV", -1, -1)>>
        /\ PTE(CURR_PROC, ins'.addr).is_referenced = 0
        /\ PTE(CURR_PROC, ins'.addr).is_modified = 0
        /\ FRAME_TABLE' = FRAME_TABLE
        /\ FREE_FRAMES' = FREE_FRAMES
        /\ PAGER' = PAGER
        /\ OFS' = OFS
        /\ victim' = -1
        /\ CURR_PROC' = CURR_PROC
        /\ CTX_SWITCHES' = CTX_SWITCHES
        /\ PROC_EXITS' = PROC_EXITS)]_vars

\* A SEGV was just taken while the free list was empty, so that a fault that
\* went on would have called the pager.
C9_Witness ==
    /\ ins.op \in {"r", "w"}
    /\ InNoVMA(CURR_PROC, ins.addr)
    /\ out = <<Ev("SEGV", -1, -1)>>
    /\ PROCS[CURR_PROC].segv > 0
    /\ FREE_FRAMES = <<>>

\* vpage lies in a write-protected VMA of process pid.
InProtectedVMA(pid, vpage) ==
    \E i \in 1 .. Len(VMAS[pid + 1]) :
        /\ vpage >= VMAS[pid + 1][i].start_page
        /\ vpage <= VMAS[pid + 1][i].end_page
        /\ VMAS[pid + 1][i].is_write_protected = 1

\* C10: every w to a page of a write-protected VMA emits SEGPROT as its last
\* event, segprot grows by 1 and COST by 1 + 410 on top of the cost of the
\* fault (nothing more when the page was present); afterwards the page is
\* present with R = 1 and M = 0. After every instruction no write-protected
\* entry has is_modified = 1.
C10_WriteProtected ==
    [][(/\ (LoadStoreStep /\ ins'.op = "w" /\ InProtectedVMA(CURR_PROC, ins'.addr)
            =>
            /\ out' # <<>>
            /\ out'[Len(out')] = Ev("SEGPROT", -1, -1)
            /\ PROCS'[CURR_PROC].segprot = PROCS[CURR_PROC].segprot + 1
            /\ COST' >= COST + 1 + 410
            /\ (PTE(CURR_PROC, ins'.addr).is_present = 1 =>
                    /\ COST' = COST + 1 + 410
                    /\ out' = <<Ev("SEGPROT", -1, -1)>>)
            /\ (PTE(CURR_PROC, ins'.addr).is_present = 0 => "MAP" \in {out'[i].e : i \in 1 .. Len(out')})
            /\ PROCS'[CURR_PROC].page_table[ins'.addr].is_present = 1
            /\ PROCS'[CURR_PROC].page_table[ins'.addr].is_referenced = 1
            /\ PROCS'[CURR_PROC].page_table[ins'.addr].is_modified = 0)
        /\ \A pg \in Pages :
              PROCS'[pg[1]].page_table[pg[2]].is_write_protected = 1 =>
                  PROCS'[pg[1]].page_table[pg[2]].is_modified = 0)]_vars

\* A write-protected page was written twice, the second time when it was
\* already present: both writes were SEGPROTs and the page is present with
\* R set and M clear.
C10_Witness ==
    /\ ins.op = "w"
    /\ InProtectedVMA(CURR_PROC, ins.addr)
    /\ out = <<Ev("SEGPROT", -1, -1)>>
    /\ PROCS[CURR_PROC].segprot >= 2
    /\ PTE(CURR_PROC, ins.addr).is_present = 1
    /\ PTE(CURR_PROC, ins.addr).is_referenced = 1
    /\ PTE(CURR_PROC, ins.addr).is_modified = 0

\* C11: in a trace that has no write and touches only anonymous pages, under
\* every pager, no OUT and no FOUT is ever emitted, the outs and fouts
\* counters stay 0, and no page table entry has is_modified or is_paged_out.
C11_ReadOnlyNeverPagesOut ==
    /\ Emitted \cap {"OUT", "FOUT"} = {}
    /\ Total("outs") + Total("fouts") = 0
    /\ \A pg \in Pages : PTE(pg[1], pg[2]).is_modified = 0 /\ PTE(pg[1], pg[2]).is_paged_out = 0

\* A read has just evicted an anonymous page: the victim was unmapped and
\* the faulting page was mapped into its frame.
C11_Witness ==
    /\ ins.op = "r"
    /\ victim # -1
    /\ \E e \in Emitted : e = "UNMAP"
    /\ PTE(CURR_PROC, ins.addr).is_file_mapped = 0
    /\ PTE(CURR_PROC, ins.addr).is_present = 1

\* The state of the worked scenario after c 0; r 0; ...; r (k - 1) with
\* k <= NUM_FRAMES: k faults and nothing else, page i in frame i.
ScenarioPrefix(k) ==
    /\ INS_COUNTER = k + 1
    /\ PROC_EXITS = 0
    /\ Total("maps") = k
    /\ \A i \in 0 .. (k - 1) : FRAME_TABLE[i].is_assigned /\ FRAME_TABLE[i].vpage = i

\* C12: with 4 frames, one process with the anonymous VMA [0, 9], randoms
\* 3, 1, 2, 0 and the trace c 0; r 0; r 1; r 2; r 3; r 4: each of the first
\* four reads emits exactly ZERO then MAP of frames 0, 1, 2, 3 in that order,
\* with no UNMAP and no victim selection; r 4 selects frame 0 under FIFO,
\* frame 3 under Random and frame 0 under Clock, which first clears the R bit
\* of every frame it passed; the events of r 4 are UNMAP of the frame's owner,
\* ZERO and MAP of the selected frame.
C12_WorkedScenario ==
    [][(NUM_FRAMES = 4 /\ RANDVALS = <<3, 1, 2, 0>> /\ ins'.op = "r")
        => /\ \A k \in 0 .. 3 :
                (ScenarioPrefix(k) /\ ins'.addr = k)
                    => /\ out' = <<Ev("ZERO", -1, -1), Ev("MAP", k, -1)>>
                       /\ victim' = -1
           /\ (ScenarioPrefix(4) /\ ins'.addr = 4 /\ PAGER.algo \in {"f", "r", "c"})
                => /\ victim' = (CASE PAGER.algo = "f" -> 0
                                   [] PAGER.algo = "r" -> 3
                                   [] PAGER.algo = "c" -> 0)
                   /\ out' = <<Ev("UNMAP", 0, victim'), Ev("ZERO", -1, -1),
                               Ev("MAP", victim', -1)>>
                   /\ PAGER.algo = "c"
                        => \A v \in 0 .. 3 : PROCS'[0].page_table[v].is_referenced = 0]_vars

\* The scenario's trace has run to its end: r 4 has evicted a page.
C12_Witness ==
    /\ NUM_FRAMES = 4
    /\ INS_COUNTER = 6
    /\ PROC_EXITS = 0
    /\ Total("maps") = 5
    /\ ins = [op |-> "r", addr |-> 4]
    /\ victim # -1
    /\ \A i \in 0 .. 3 : i # victim => FRAME_TABLE[i].vpage = i

\* The step executes an exit instruction.
ExitStep == INS_COUNTER' = INS_COUNTER + 1 /\ ins'.op = "e"

\* The pages of process pid that are present.
PresentPages(pid) == {v \in VPages : PROCS[pid].page_table[v].is_present = 1}

\* The present pages of process pid that are modified and file-mapped.
DirtyFilePages(pid) ==
    {v \in PresentPages(pid) : /\ PROCS[pid].page_table[v].is_modified = 1
                               /\ PROCS[pid].page_table[v].is_file_mapped = 1}

\* C14: on e target every present page of the target emits UNMAP and counts
\* in unmaps, and emits FOUT, counting in fouts, exactly when it is modified
\* and file-mapped: FOUT follows the UNMAP of such a page and nothing else.
\* No OUT is emitted, no outs counter changes and no page of the target is
\* marked paged-out afterwards. A victim's unmap differs: a modified
\* anonymous victim emits OUT, counts in outs and is marked paged-out.
C14_ExitWritesBackFilesOnly ==
    [][/\ ExitStep =>
            LET t == ins'.addr
                present == PresentPages(t)
                dirty == DirtyFilePages(t)
                unmaps == {i \in 1 .. Len(out') : out'[i].e = "UNMAP"}
            IN  /\ {out'[i].y : i \in unmaps} = present
                /\ \A i \in unmaps : out'[i].x = t
                /\ Cardinality(unmaps) = Cardinality(present)
                /\ PROCS'[t].unmaps = PROCS[t].unmaps + Cardinality(present)
                /\ \A i \in unmaps :
                     (i < Len(out') /\ out'[i + 1].e = "FOUT") <=> out'[i].y \in dirty
                /\ \A i \in 1 .. Len(out') :
                     out'[i].e = "FOUT" => (i > 1 /\ out'[i - 1].e = "UNMAP")
                /\ PROCS'[t].fouts = PROCS[t].fouts + Cardinality(dirty)
                /\ \A i \in 1 .. Len(out') : out'[i].e # "OUT"
                /\ \A p \in Pids : PROCS'[p].outs = PROCS[p].outs
                /\ \A v \in VPages : PROCS'[t].page_table[v].is_paged_out = 0
       /\ (LoadStoreStep /\ victim' # -1) =>
            LET pid == FRAME_TABLE[victim'].pid
                vpage == FRAME_TABLE[victim'].vpage
            IN  (PTE(pid, vpage).is_modified = 1 /\ PTE(pid, vpage).is_file_mapped = 0)
                    => /\ \E i \in 1 .. Len(out') : out'[i].e = "OUT"
                       /\ PROCS'[pid].outs = PROCS[pid].outs + 1
                       /\ PROCS'[pid].page_table[vpage].is_paged_out = 1]_vars

\* A process has just exited with a modified anonymous page, which was
\* unmapped, and a modified file-mapped page, which was written back.
C14_Witness ==
    /\ ins.op = "e"
    /\ "FOUT" \in Emitted
    /\ \E i \in 1 .. Len(out) :
         /\ out[i].e = "UNMAP"
         /\ PTE(out[i].x, out[i].y).is_modified = 1
         /\ PTE(out[i].x, out[i].y).is_file_mapped = 0

\* The frames of the present pages of process pid, in ascending page order.
FramesByPage(pid) ==
    LET P == PresentPages(pid)
    IN  [k \in 1 .. Cardinality(P) |->
            PROCS[pid].page_table[CHOOSE v \in P :
                                      Cardinality({u \in P : u < v}) = k - 1].frame_num]

\* C15: e target appends the frames of the target's present pages to the
\* tail of the free list in ascending page order, behind the frames already
\* free, each with is_assigned = false, pid = -1, vpage = -1 and
\* is_victim = false. A later fault that maps a page while the free list is
\* not empty takes the frame at its head, without UNMAP and without asking
\* the pager for a victim.
C15_ExitFreesInPageOrder ==
    [][/\ ExitStep =>
            LET freed == FramesByPage(ins'.addr)
            IN  /\ FREE_FRAMES' = FREE_FRAMES \o freed
                /\ \A k \in 1 .. Len(freed) :
                     /\ ~FRAME_TABLE'[freed[k]].is_assigned
                     /\ FRAME_TABLE'[freed[k]].pid = -1
                     /\ FRAME_TABLE'[freed[k]].vpage = -1
                     /\ ~FRAME_TABLE'[freed[k]].is_victim
       /\ (LoadStoreStep /\ FREE_FRAMES # <<>> /\ "MAP" \in {out'[i].e : i \in 1 .. Len(out')})
            => /\ \E i \in 1 .. Len(out') : out'[i] = Ev("MAP", Head(FREE_FRAMES), -1)
               /\ FREE_FRAMES' = Tail(FREE_FRAMES)
               /\ victim' = -1
               /\ \A i \in 1 .. Len(out') : out'[i].e # "UNMAP"]_vars

\* After an exit that freed two frames, the frame of the lower page, which
\* is the higher frame, was at the head of the free list: the next fault has
\* taken it and the other freed frame is still free.
C15_Witness ==
    /\ PROC_EXITS > 0
    /\ Total("unmaps") >= 2
    /\ victim = -1
    /\ ins.op \in {"r", "w"}
    /\ \E f \in Frames :
         /\ f > 0
         /\ Ev("MAP", f, -1) \in {out[i] : i \in 1 .. Len(out)}
         /\ FREE_FRAMES = <<0>>

\* C16 as stated: e target changes page table entries only on pages of the
\* target that were present when the exit began; a page of the target that
\* is not present keeps all its bits, is_paged_out among them, and the
\* entries of every other process are unchanged.
C16_ExitTouchesPresentPagesOnly ==
    [][ExitStep =>
          \A pg \in Pages :
              (pg[1] # ins'.addr \/ PTE(pg[1], pg[2]).is_present = 0)
                  => PROCS'[pg[1]].page_table[pg[2]] = PTE(pg[1], pg[2])]_vars

\* C16, amended: e target changes page table entries of the target only, and
\* on every page of the target, present or not: is_present, is_referenced
\* and is_paged_out become 0 and the other fields of the entry keep their
\* values; the entries of every other process are unchanged.
C16_ExitClearsEveryTargetPage ==
    [][ExitStep =>
          \A pg \in Pages :
              PROCS'[pg[1]].page_table[pg[2]] =
                  IF pg[1] = ins'.addr
                  THEN [PTE(pg[1], pg[2]) EXCEPT !.is_present = 0,
                                                 !.is_referenced = 0,
                                                 !.is_paged_out = 0]
                  ELSE PTE(pg[1], pg[2])]_vars

\* The first exit of the run is that of a process with more page-outs than
\* page-ins, so one of its pages was paged out and not present when the exit
\* began (a fault on it would have been an IN); no page of the exited
\* process is paged-out now.
C16_Witness ==
    /\ ins.op = "e"
    /\ PROC_EXITS = 1
    /\ PROCS[ins.addr].outs > PROCS[ins.addr].ins
    /\ \A v \in VPages : PTE(ins.addr, v).is_paged_out = 0

\* The events that fill a frame, and the events of a victim's unmap.
FillEvents == {"FIN", "IN", "ZERO"}

UnmapEvents == {"UNMAP", "OUT", "FOUT"}

\* C17: a page fault that maps a page emits exactly one fill event: FIN if the
\* entry is file-mapped, else IN if it is paged-out, else ZERO; the events
\* before it are the victim's UNMAP, OUT and FOUT, MAP follows it at once and
\* no such event comes after MAP. An instruction that maps no page emits no
\* fill event, and for every process maps = fins + ins + zeros.
C17_OneFillPerMap ==
    /\ \A p \in Pids : PROCS[p].maps = PROCS[p].fins + PROCS[p].ins + PROCS[p].zeros
    /\ \A i \in 1 .. Len(out) :
         out[i].e \in FillEvents =>
             /\ i < Len(out)
             /\ out[i + 1].e = "MAP"
             /\ ins.op \in {"r", "w"}
             /\ out[i].e = (IF PTE(CURR_PROC, ins.addr).is_file_mapped = 1 THEN "FIN"
                            ELSE IF PTE(CURR_PROC, ins.addr).is_paged_out = 1 THEN "IN"
                            ELSE "ZERO")
             /\ \A j \in 1 .. (i - 1) : out[j].e \in UnmapEvents
             /\ \A j \in (i + 2) .. Len(out) : out[j].e \notin FillEvents \cup UnmapEvents \cup {"MAP"}
    /\ \A i \in 1 .. Len(out) :
         out[i].e = "MAP" => (i > 1 /\ out[i - 1].e \in FillEvents)

\* A page that was paged out has just been brought back: the fault evicted
\* a victim and then emitted IN and MAP.
C17_Witness ==
    /\ victim # -1
    /\ \E i \in 2 .. Len(out) :
         /\ out[i].e = "IN"
         /\ out[i - 1].e \in UnmapEvents
         /\ i < Len(out)
         /\ out[i + 1].e = "MAP"

\* The frame the pager's walk visits in its i-th step from hand h.
Walk(h, i) == (h + i) % NUM_FRAMES

\* The R bit of the page that owns frame f.
RBit(f) == PTE(FRAME_TABLE[f].pid, FRAME_TABLE[f].vpage).is_referenced

\* The R bit, after the step, of the page that owns frame f before it.
RBitAfter(f) == PROCS'[FRAME_TABLE[f].pid].page_table[FRAME_TABLE[f].vpage].is_referenced

\* The step is a page fault for which the pager selected a victim.
SelectStep == LoadStoreStep /\ victim' # -1

\* The pages that own no frame, the faulting page of the step excepted, keep
\* their R bit in the step.
OtherRBitsKept ==
    \A pg \in Pages :
        (PTE(pg[1], pg[2]).is_present = 0 /\ pg # <<CURR_PROC, ins'.addr>>)
            => PROCS'[pg[1]].page_table[pg[2]].is_referenced = PTE(pg[1], pg[2]).is_referenced

\* C18: Clock's select_victim_frame runs with every frame assigned. With
\* passed the number of frames from the hand on, in cyclic order, that come
\* before the first one whose page has R = 0 (NUM_FRAMES when every page has
\* R = 1), it inspects passed + 1 <= NUM_FRAMES + 1 frames: the victim is the
\* frame passed steps after the hand (the frame at the hand when every page
\* has R = 1), the pages of the frames passed have R cleared and no other R
\* bit is changed by the pager.
C18_ClockFirstUnreferenced ==
    [][(SelectStep /\ PAGER.algo = "c") =>
          LET zero == {i \in 0 .. (NUM_FRAMES - 1) : RBit(Walk(PAGER.hand, i)) = 0}
              passed == IF zero = {} THEN NUM_FRAMES
                        ELSE CHOOSE i \in zero : \A j \in zero : i <= j
          IN  /\ \A f \in Frames : FRAME_TABLE[f].is_assigned
              /\ passed + 1 <= NUM_FRAMES + 1
              /\ victim' = Walk(PAGER.hand, passed)
              /\ \A i \in 0 .. (NUM_FRAMES - 1) :
                   RBitAfter(Walk(PAGER.hand, i))
                       = IF i < passed THEN 0 ELSE RBit(Walk(PAGER.hand, i))
              /\ OtherRBitsKept]_vars

\* Clock has just selected a victim among pages with different R bits,
\* without a full turn: the frame before the victim in cyclic order has
\* R = 0 and another frame, which the walk did not reach, still has R = 1.
C18_Witness ==
    /\ PAGER.algo = "c"
    /\ victim # -1
    /\ ins.op = "r"
    /\ RBit(Walk(victim, NUM_FRAMES - 1)) = 0
    /\ \E f \in Frames : f # victim /\ RBit(f) = 1

\* NRU's class of the page that owns frame f: 2 * R + M.
ClassOf(f) == 2 * RBit(f) + PTE(FRAME_TABLE[f].pid, FRAME_TABLE[f].vpage).is_modified

\* C19: NRU's select_victim_frame returns the first frame, in walk order from
\* the hand, of the lowest class 2 * R + M that has a frame, the classes
\* taken from the R bits before the call. It resets exactly when
\* INS_COUNTER >= last_reset + 48: then the R bit of every frame's page is
\* cleared (the whole table is scanned) and last_reset becomes INS_COUNTER;
\* otherwise the pager changes no R bit and last_reset keeps its value.
C19_NRULowestClass ==
    [][(SelectStep /\ PAGER.algo = "e") =>
          LET lowest == CHOOSE c \in {ClassOf(f) : f \in Frames} :
                            \A f \in Frames : c <= ClassOf(f)
              steps == {i \in 0 .. (NUM_FRAMES - 1) : ClassOf(Walk(PAGER.hand, i)) = lowest}
              first == CHOOSE i \in steps : \A j \in steps : i <= j
              reset == INS_COUNTER' >= PAGER.last_reset + NRU_RESET_COUNT
          IN  /\ victim' = Walk(PAGER.hand, first)
              /\ reset => /\ \A f \in Frames : RBitAfter(f) = 0
                          /\ PAGER'.last_reset = INS_COUNTER'
              /\ ~reset => /\ \A f \in Frames : RBitAfter(f) = RBit(f)
                           /\ PAGER'.last_reset = PAGER.last_reset
              /\ OtherRBitsKept]_vars

\* NRU has just selected a victim in its second reset: the reset happened in
\* this instruction, 48 or more instructions after the first one, and every
\* frame but the victim's, which was mapped since, has R = 0.
C19_Witness ==
    /\ PAGER.algo = "e"
    /\ victim # -1
    /\ PAGER.last_reset = INS_COUNTER
    /\ INS_COUNTER >= 2 * NRU_RESET_COUNT
    /\ \A f \in Frames : f # victim => RBit(f) = 0

\* The age of frame f after one update by Aging: shifted right by one, with
\* bit 31 set when the frame's page has R = 1.
AgedOnce(f) == ShiftRight(FRAME_TABLE[f].age) \cup (IF RBit(f) = 1 THEN {31} ELSE {})

\* C20: Aging's select_victim_frame updates every frame once: its age is
\* shifted right by one, bit 31 is set if and only if its page had R = 1,
\* and that R bit is cleared. The victim is the frame with the smallest
\* updated age, the earliest in walk order from the hand among equals. The
\* frame a page is mapped into has age 0, and every age is below 2^32 (no
\* bit above bit 31 is set).
C20_AgingSmallestAge ==
    [][/\ (SelectStep /\ PAGER.algo = "a") =>
            LET least == {i \in 0 .. (NUM_FRAMES - 1) :
                             \A j \in 0 .. (NUM_FRAMES - 1) :
                                 ~AgeLess(AgedOnce(Walk(PAGER.hand, j)),
                                          AgedOnce(Walk(PAGER.hand, i)))}
                first == CHOOSE i \in least : \A j \in least : i <= j
            IN  /\ victim' = Walk(PAGER.hand, first)
                /\ \A f \in Frames : f # victim' => FRAME_TABLE'[f].age = AgedOnce(f)
                /\ \A f \in Frames : RBitAfter(f) = 0
                /\ OtherRBitsKept
       /\ (LoadStoreStep /\ PAGER.algo = "a") =>
            \A i \in 1 .. Len(out') :
                out'[i].e = "MAP" => FRAME_TABLE'[out'[i].x].age = {}
       /\ \A f \in Frames : FRAME_TABLE'[f].age \subseteq 0 .. 31]_vars

\* Aging has just selected a victim among frames of different histories: the
\* other frames have different ages, neither of them 0, and one of them has
\* been updated more than once since it was referenced.
C20_Witness ==
    /\ PAGER.algo = "a"
    /\ victim # -1
    /\ \E f, g \in Frames \ {victim} :
         /\ FRAME_TABLE[f].age # FRAME_TABLE[g].age
         /\ FRAME_TABLE[f].age # {}
         /\ FRAME_TABLE[g].age # {}
         /\ 31 \notin FRAME_TABLE[g].age

\* The age of frame f as a number.
AgeOf(f) == ValueOf(FRAME_TABLE[f].age)

\* Working-Set's stop test on frame f in the instruction the step executes:
\* R = 0 and INS_COUNTER > age + 49.
OldUnreferenced(f) == RBit(f) = 0 /\ INS_COUNTER' > AgeOf(f) + WORKING_SET_TAU

\* The age of frame f after Working-Set visited it without stopping: the
\* instruction's number when its page has R = 1, else its age.
Stamped(f) == IF RBit(f) = 1 THEN INS_COUNTER' ELSE AgeOf(f)

\* C21: Working-Set's select_victim_frame walks from the hand. It stops at
\* the first frame whose page has R = 0 and for which INS_COUNTER > age + 49:
\* that frame is the victim, the frames before it with R = 1 got
\* age = INS_COUNTER and R cleared, and the frames after it keep age and R.
\* When no frame is such, every frame with R = 1 gets age = INS_COUNTER and
\* R cleared, and the victim is the frame of the smallest age after that,
\* the earliest in walk order among equals. The frame a page is mapped into
\* gets age = INS_COUNTER.
C21_WorkingSetOldOrSmallest ==
    [][/\ (SelectStep /\ PAGER.algo = "w") =>
            LET h == PAGER.hand
                stops == {i \in 0 .. (NUM_FRAMES - 1) : OldUnreferenced(Walk(h, i))}
                least == {i \in 0 .. (NUM_FRAMES - 1) :
                             \A j \in 0 .. (NUM_FRAMES - 1) :
                                 Stamped(Walk(h, i)) <= Stamped(Walk(h, j))}
                k == IF stops # {}
                     THEN CHOOSE i \in stops : \A j \in stops : i <= j
                     ELSE CHOOSE i \in least : \A j \in least : i <= j
                visited == IF stops # {} THEN k ELSE NUM_FRAMES
            IN  /\ victim' = Walk(h, k)
                /\ \A i \in 0 .. (NUM_FRAMES - 1) :
                     LET f == Walk(h, i)
                     IN  /\ RBitAfter(f) = IF i < visited THEN 0 ELSE RBit(f)
                         /\ f # victim' =>
                              ValueOf(FRAME_TABLE'[f].age)
                                  = IF i < visited THEN Stamped(f) ELSE AgeOf(f)
                /\ OtherRBitsKept
       /\ (LoadStoreStep /\ PAGER.algo = "w") =>
            \A i \in 1 .. Len(out') :
                out'[i].e = "MAP" => ValueOf(FRAME_TABLE'[out'[i].x].age) = INS_COUNTER']_vars

\* Working-Set has just stopped its walk at an old frame: a frame other than
\* the victim's still has R = 1, which a full scan would have cleared.
C21_Witness ==
    /\ PAGER.algo = "w"
    /\ victim # -1
    /\ INS_COUNTER > WORKING_SET_TAU
    /\ \E f \in Frames : f # victim /\ RBit(f) = 1

\* C22: under the Random pager every victim selection takes one random
\* value: with OFS = k before it, it returns frame
\* RANDVALS[k mod RAND_COUNT] mod NUM_FRAMES and leaves OFS = k + 1; no
\* other instruction (a fault served from the free list, a SEGV, a hit, a
\* context switch, an exit) changes OFS. OFS starts at 0, so it counts the
\* selections made: until the first exit it equals the number of UNMAPs.
C22_RandomTakesOneValue ==
    /\ [](PAGER.algo = "r" /\ OFS >= 0 /\ (PROC_EXITS = 0 => OFS = Total("unmaps")))
    /\ [][IF victim' # -1
          THEN /\ victim' = RANDVALS[(OFS % RAND_COUNT) + 1] % NUM_FRAMES
               /\ OFS' = OFS + 1
          ELSE OFS' = OFS]_vars

\* The Random pager has just selected a victim with a value read after the
\* cursor wrapped around the table.
C22_Witness ==
    /\ PAGER.algo = "r"
    /\ victim # -1
    /\ OFS > RAND_COUNT
    /\ victim = RANDVALS[((OFS - 1) % RAND_COUNT) + 1] % NUM_FRAMES

\* The step is a page fault that maps a page into frame f.
MapsFrame(f) ==
    /\ LoadStoreStep
    /\ \E i \in 1 .. Len(out') : out'[i] = Ev("MAP", f, -1)

\* C23: select_victim_frame is called only when the free list is empty, and
\* then every frame is assigned to a page with pid >= 0 and vpage >= 0 that
\* is present in that frame, so reverse_map indexes no table with -1. The
\* frame it returns has is_victim = true and its page is unmapped (UNMAP)
\* before the frame is mapped again. A frame taken from the free list has
\* is_victim = false and the fault emits no UNMAP. After every instruction
\* is_victim = is_assigned for every frame.
C23_VictimsAreAssignedFrames ==
    [][/\ victim' # -1 =>
            /\ FREE_FRAMES = <<>>
            /\ \A f \in Frames :
                 /\ FRAME_TABLE[f].is_assigned
                 /\ FRAME_TABLE[f].pid \in Pids
                 /\ FRAME_TABLE[f].vpage \in VPages
                 /\ PTE(FRAME_TABLE[f].pid, FRAME_TABLE[f].vpage).is_present = 1
                 /\ PTE(FRAME_TABLE[f].pid, FRAME_TABLE[f].vpage).frame_num = f
            /\ FRAME_TABLE[victim'].is_victim
            /\ MapsFrame(victim')
            /\ out'[1] = Ev("UNMAP", FRAME_TABLE[victim'].pid, FRAME_TABLE[victim'].vpage)
            /\ PROCS'[FRAME_TABLE[victim'].pid].page_table[FRAME_TABLE[victim'].vpage].is_present = 0
       /\ \A f \in Frames :
            (MapsFrame(f) /\ victim' = -1) =>
                /\ FREE_FRAMES # <<>>
                /\ f = Head(FREE_FRAMES)
                /\ ~FRAME_TABLE[f].is_victim
                /\ \A i \in 1 .. Len(out') : out'[i].e # "UNMAP"
       /\ \A f \in Frames : FRAME_TABLE'[f].is_victim = FRAME_TABLE'[f].is_assigned]_vars

\* The pager has just been called: the free list is empty, the victim's page
\* was unmapped first and the faulting page is mapped in the victim's frame,
\* and every frame is assigned and flagged is_victim.
C23_Witness ==
    /\ victim # -1
    /\ FREE_FRAMES = <<>>
    /\ Len(out) >= 2
    /\ out[1].e = "UNMAP"
    /\ Ev("MAP", victim, -1) \in {out[i] : i \in 1 .. Len(out)}
    /\ FRAME_TABLE[victim].pid = CURR_PROC
    /\ FRAME_TABLE[victim].vpage = ins.addr
    /\ \A f \in Frames : FRAME_TABLE[f].is_victim /\ FRAME_TABLE[f].is_assigned

\* The words of the events the step's instruction emits.
EmittedNext == {out'[i].e : i \in 1 .. Len(out')}

\* The step evicts page pg with OUT.
PagedOutNow(pg) ==
    /\ victim' # -1
    /\ pg = <<FRAME_TABLE[victim'].pid, FRAME_TABLE[victim'].vpage>>
    /\ "OUT" \in EmittedNext

\* C24: a page's is_paged_out bit records that the page had an OUT since the
\* start and since the last exit of its process: an OUT of the page sets it,
\* an exit of its process clears it, and nothing else changes it, so the
\* page keeps it when it is brought in and when it is evicted clean. A fault
\* emits IN only for a page with the bit set, that is, only after an earlier
\* OUT of that page with no exit of its process in between; a fault on an
\* anonymous page without the bit emits ZERO, and one with the bit emits IN,
\* each time the page is brought back (ins is not bounded by outs).
C24_InOnlyAfterOut ==
    [][/\ \A pg \in Pages :
            PROCS'[pg[1]].page_table[pg[2]].is_paged_out
                = IF ExitStep /\ ins'.addr = pg[1] THEN 0
                  ELSE IF PagedOutNow(pg) THEN 1
                  ELSE PTE(pg[1], pg[2]).is_paged_out
       /\ (LoadStoreStep /\ "IN" \in EmittedNext) =>
            PTE(CURR_PROC, ins'.addr).is_paged_out = 1
       /\ (LoadStoreStep /\ "MAP" \in EmittedNext
             /\ PROCS'[CURR_PROC].page_table[ins'.addr].is_file_mapped = 0) =>
            IF PTE(CURR_PROC, ins'.addr).is_paged_out = 1
            THEN "IN" \in EmittedNext /\ "ZERO" \notin EmittedNext
            ELSE "ZERO" \in EmittedNext /\ "IN" \notin EmittedNext]_vars

\* A page has been brought IN a second time after its only OUT: the process
\* has more page-ins than page-outs.
C24_Witness ==
    /\ "IN" \in Emitted
    /\ PROC_EXITS = 0
    /\ \E p \in Pids : PROCS[p].outs = 1 /\ PROCS[p].ins = 2

=============================================================================
